---- MODULE Spec2Model ----
(***************************************************************************)
(* Model of listings/serializers.py: the booking write path of the         *)
(* vacation-rental application.  A write is BookingSerializer.validate     *)
(* followed, when it accepts, by BookingSerializer.create (a new booking)  *)
(* or by the inherited ModelSerializer.update (an existing booking).       *)
(*                                                                         *)
(* Dates are day numbers.  A field the submission does not carry is None   *)
(* (what data.get returns); an absent status is NoStatus.                  *)
(***************************************************************************)
EXTENDS Integers, Sequences, FiniteSets

\* ---------------------------------------------------------------- bounds
MaxDay == 2

\* ------------------------------------------------------------- constants
None == -1
NoStatus == "none"
ListingIds == {1, 2}
Days == 0 .. MaxDay
Prices == {1, 2}
BookingSlots == {1, 2}
Procs == {"p1", "p2"}
Statuses == {"pending", "confirmed", "cancelled"}
ActiveStatuses == {"confirmed", "pending"}

\* error messages of validate, and the exceptions create / save can raise
NoErr == "ok"
E_ORDER == "Check-out date must be after check-in date."
E_PAST == "Check-in date cannot be in the past."
E_CAPACITY == "Number of guests exceeds maximum capacity."
E_LISTING == "Invalid listing ID."
E_CONFLICT == "Listing is not available for the selected dates."
X_DOESNOTEXIST == "Listing.DoesNotExist"
X_INTEGRITY == "IntegrityError"
E_PRICE == "Price per night must be positive."
ValidationErrors ==
  {E_ORDER, E_PAST, E_CAPACITY, E_LISTING, E_CONFLICT, E_PRICE}

VARIABLES listings, bookings, today, last, closed, inflight
vars == <<listings, bookings, today, last, closed, inflight>>

\* ------------------------------------------------------------ submissions
\* guests is drawn from 1 .. (capacity + 1); listing ids from the existing
\* ones, 0 and one id that no listing has.
GuestVals == {1, 2}
ListingRefs == ListingIds \cup {0, 3}

Submission(ci, co, g, l, s, tp) ==
  [check_in_date |-> ci, check_out_date |-> co, guests |-> g,
   listing_id |-> l, status |-> s, total_price |-> tp]

\* what a client can send when every required field must be there
FullSubmissions ==
  {Submission(ci, co, g, l, s, tp) :
     ci \in Days, co \in Days, g \in GuestVals, l \in ListingRefs,
     s \in Statuses, tp \in {None, 0}}

\* what a client can send with partial=True (a PUT is the case where every
\* required field is carried); each carries a client-chosen total_price
PartialSubmissions ==
  {Submission(ci, co, g, l, s, 0) :
     ci \in Days \cup {None}, co \in Days \cup {None},
     g \in GuestVals \cup {None}, l \in ListingRefs \cup {None},
     s \in Statuses \cup {NoStatus}}

\* the creations the two concurrent clients send
ConcSubmissions ==
  {Submission(ci, co, 1, l, s, None) :
     ci \in Days, co \in Days, l \in ListingIds, s \in Statuses}

\* ------------------------------------------------------------- serializer
\* variant: total_price is not declared read-only
to_internal_value_writable(sub) == sub

\* Meta.read_only_fields: total_price never reaches validated data
to_internal_value(sub) == [sub EXCEPT !.total_price = None]

\* variant: the range test uses closed intervals
ConflictingBookings_closed(listing_id, check_in, check_out, instance, B) ==
  {i \in DOMAIN B :
     /\ B[i].listing_id = listing_id
     /\ B[i].status \in ActiveStatuses
     /\ B[i].check_in_date <= check_out
     /\ B[i].check_out_date >= check_in
     /\ ~(instance # None /\ i = instance)}

\* the queryset of validate: active bookings of the listing whose range
\* intersects [check_in, check_out), the instance being updated excluded
ConflictingBookings(listing_id, check_in, check_out, instance, B) ==
  {i \in DOMAIN B :
     /\ B[i].listing_id = listing_id
     /\ B[i].status \in ActiveStatuses
     /\ B[i].check_in_date < check_out
     /\ B[i].check_out_date > check_in
     /\ ~(instance # None /\ i = instance)}

DateCheck(check_in, check_out, now) ==
  IF check_in # None /\ check_out # None
  THEN IF check_out <= check_in THEN [err |-> E_ORDER, calls |-> <<>>]
       ELSE IF check_in < now THEN [err |-> E_PAST, calls |-> <<"now">>]
       ELSE [err |-> NoErr, calls |-> <<"now">>]
  ELSE [err |-> NoErr, calls |-> <<>>]

\* variant: a full listing is refused
CapacityCheck_strict(listing_id, guests, L) ==
  IF listing_id # None /\ listing_id # 0 /\ guests # None /\ guests # 0
  THEN IF listing_id \in DOMAIN L
       THEN IF guests >= L[listing_id].max_guests
            THEN [err |-> E_CAPACITY, calls |-> <<"Listing.get">>]
            ELSE [err |-> NoErr, calls |-> <<"Listing.get">>]
       ELSE [err |-> E_LISTING, calls |-> <<"Listing.get">>]
  ELSE [err |-> NoErr, calls |-> <<>>]

CapacityCheck(listing_id, guests, L) ==
  IF listing_id # None /\ listing_id # 0 /\ guests # None /\ guests # 0
  THEN IF listing_id \in DOMAIN L
       THEN IF guests > L[listing_id].max_guests
            THEN [err |-> E_CAPACITY, calls |-> <<"Listing.get">>]
            ELSE [err |-> NoErr, calls |-> <<"Listing.get">>]
       ELSE [err |-> E_LISTING, calls |-> <<"Listing.get">>]
  ELSE [err |-> NoErr, calls |-> <<>>]

ConflictCheck(listing_id, check_in, check_out, instance, B) ==
  IF check_in # None /\ check_out # None /\ listing_id # None /\ listing_id # 0
  THEN IF ConflictingBookings(listing_id, check_in, check_out, instance, B) # {}
       THEN [err |-> E_CONFLICT, calls |-> <<"Booking.filter">>]
       ELSE [err |-> NoErr, calls |-> <<"Booking.filter">>]
  ELSE [err |-> NoErr, calls |-> <<>>]

\* validate: the first failing check raises; otherwise data is returned
validate(data, instance, L, B, now) ==
  LET d == DateCheck(data.check_in_date, data.check_out_date, now)
      c == CapacityCheck(data.listing_id, data.guests, L)
      k == ConflictCheck(data.listing_id, data.check_in_date,
                         data.check_out_date, instance, B)
  IN  IF d.err # NoErr THEN [err |-> d.err, calls |-> d.calls, data |-> data]
      ELSE IF c.err # NoErr
      THEN [err |-> c.err, calls |-> d.calls \o c.calls, data |-> data]
      ELSE [err |-> k.err, calls |-> d.calls \o c.calls \o k.calls,
            data |-> data]

\* variant: the check-out day is charged as a night
create_inclusive(validated_data, L) ==
  IF validated_data.listing_id \notin DOMAIN L
  THEN [err |-> X_DOESNOTEXIST, row |-> validated_data]
  ELSE LET nights == validated_data.check_out_date - validated_data.check_in_date + 1
       IN  [err |-> NoErr,
            row |-> [validated_data EXCEPT
                       !.total_price = L[validated_data.listing_id].price_per_night * nights]]

\* create: the price is derived from the listing and the number of nights
create(validated_data, L) ==
  IF validated_data.listing_id \notin DOMAIN L
  THEN [err |-> X_DOESNOTEXIST, row |-> validated_data]
  ELSE LET nights == validated_data.check_out_date - validated_data.check_in_date
       IN  [err |-> NoErr,
            row |-> [validated_data EXCEPT
                       !.total_price = L[validated_data.listing_id].price_per_night * nights]]

\* ListingSerializer.validate_price_per_night
validate_price_per_night(value) ==
  IF value <= 0 THEN [err |-> E_PRICE, value |-> value]
  ELSE [err |-> NoErr, value |-> value]

\* ModelSerializer.update: every attribute validated data carries is set
update(row, validated_data) ==
  LET set(f) == IF validated_data[f] # None THEN validated_data[f] ELSE row[f]
  IN  [check_in_date |-> set("check_in_date"),
       check_out_date |-> set("check_out_date"),
       guests |-> set("guests"),
       listing_id |-> set("listing_id"),
       status |-> IF validated_data.status # NoStatus
                  THEN validated_data.status ELSE row.status,
       total_price |-> set("total_price")]

\* --------------------------------------------------------------- actions
\* A behaviour follows the store through accepted creations (and days
\* passing) and then one further request of any kind, whose outcome `last`
\* records; `closed` says that this request has been served.
Idle == [pc |-> "idle", data |-> Submission(None, None, None, None, NoStatus, None)]

\* Two listings that take one guest each, at 1 and 2 per night; no bookings.
Init ==
  /\ listings = [l \in ListingIds |-> [price_per_night |-> l, max_guests |-> 1]]
  /\ bookings = <<>>
  /\ today = 0
  /\ last = [op |-> "none", err |-> NoErr]
  /\ closed = FALSE
  /\ inflight = [p \in Procs |-> Idle]

\* POST: validate, then create
CreateRequest(sub) ==
  \E v \in {validate(to_internal_value(sub), None, listings, bookings, today)} :
  \E c \in {create(v.data, listings)} :
      /\ IF v.err # NoErr
         THEN /\ last' = [op |-> "create", err |-> v.err]
              /\ closed' = TRUE
              /\ UNCHANGED bookings
         ELSE IF c.err # NoErr
         THEN /\ last' = [op |-> "create", err |-> c.err]
              /\ closed' = TRUE
              /\ UNCHANGED bookings
         ELSE /\ bookings' = Append(bookings, c.row)
              /\ UNCHANGED <<last, closed>>
      /\ UNCHANGED <<listings, today, inflight>>

\* variant: the instance is saved before validate has the last word
UpdateRequest_eager(id, sub) ==
  \E v \in {validate(to_internal_value(sub), id, listings, bookings, today)} :
  \E row \in {update(bookings[id], v.data)} :
      /\ last' = [op |-> "update", err |-> v.err]
      /\ IF row.listing_id \in DOMAIN listings
         THEN bookings' = [bookings EXCEPT ![id] = row]
         ELSE UNCHANGED bookings
      /\ closed' = TRUE
      /\ UNCHANGED <<listings, today, inflight>>

\* PUT / PATCH on booking id: validate with the instance, then update and save
UpdateRequest(id, sub) ==
  \E v \in {validate(to_internal_value(sub), id, listings, bookings, today)} :
  \E row \in {update(bookings[id], v.data)} :
      /\ IF v.err # NoErr
         THEN /\ last' = [op |-> "update", err |-> v.err]
              /\ UNCHANGED bookings
         ELSE IF row.listing_id \notin DOMAIN listings
         THEN /\ last' = [op |-> "update", err |-> X_INTEGRITY]
              /\ UNCHANGED bookings
         ELSE /\ last' = [op |-> "update", err |-> NoErr]
              /\ bookings' = [bookings EXCEPT ![id] = row]
      /\ closed' = TRUE
      /\ UNCHANGED <<listings, today, inflight>>

\* PATCH of a listing's price through ListingSerializer
PriceRequest(l, value) ==
  LET v == validate_price_per_night(value)
  IN  /\ IF v.err # NoErr
         THEN UNCHANGED listings
         ELSE listings' = [listings EXCEPT ![l].price_per_night = v.value]
      /\ last' = [op |-> "price", err |-> v.err]
      /\ closed' = TRUE
      /\ UNCHANGED <<bookings, today, inflight>>

Create ==
  /\ ~closed
  /\ Len(bookings) < Cardinality(BookingSlots)
  /\ \E sub \in FullSubmissions : CreateRequest(sub)

Update ==
  /\ ~closed
  /\ \E id \in DOMAIN bookings : \E sub \in PartialSubmissions :
        UpdateRequest(id, sub)

SetPrice ==
  /\ ~closed
  /\ \E l \in ListingIds : \E value \in Prices \cup {0} : PriceRequest(l, value)

\* a day passes (timezone.now().date() moves on): today is day 0 or day 1
Tick ==
  /\ ~closed
  /\ today < 1
  /\ today' = today + 1
  /\ UNCHANGED <<listings, bookings, last, closed, inflight>>

Next == Create \/ Update \/ SetPrice \/ Tick

Spec == Init /\ [][Next]_vars

\* ------------------------------------------------- two concurrent creations
\* Each client's request is a validate step followed by a separate create
\* step; nothing orders the steps of one client against the other's.
Submit(p) ==
  /\ inflight[p].pc = "idle"
  /\ \E sub \in ConcSubmissions :
        inflight' = [inflight EXCEPT ![p] = [pc |-> "submitted", data |-> sub]]
  /\ UNCHANGED <<listings, bookings, today, last, closed>>

ValidateStep(p) ==
  /\ inflight[p].pc = "submitted"
  /\ LET v == validate(to_internal_value(inflight[p].data), None,
                       listings, bookings, today)
     IN  inflight' = [inflight EXCEPT ![p].pc =
                        IF v.err = NoErr THEN "validated" ELSE "rejected"]
  /\ UNCHANGED <<listings, bookings, today, last, closed>>

\* variant: create repeats the availability query before it inserts
CreateStep_recheck(p) ==
  /\ inflight[p].pc = "validated"
  /\ LET c == create(to_internal_value(inflight[p].data), listings)
         k == ConflictCheck(inflight[p].data.listing_id,
                            inflight[p].data.check_in_date,
                            inflight[p].data.check_out_date, None, bookings)
     IN  IF c.err # NoErr \/ k.err # NoErr
         THEN /\ inflight' = [inflight EXCEPT ![p].pc = "failed"]
              /\ UNCHANGED bookings
         ELSE /\ inflight' = [inflight EXCEPT ![p].pc = "done"]
              /\ bookings' = Append(bookings, c.row)
  /\ UNCHANGED <<listings, today, last, closed>>

CreateStep(p) ==
  /\ inflight[p].pc = "validated"
  /\ LET c == create(to_internal_value(inflight[p].data), listings)
     IN  IF c.err # NoErr
         THEN /\ inflight' = [inflight EXCEPT ![p].pc = "failed"]
              /\ UNCHANGED bookings
         ELSE /\ inflight' = [inflight EXCEPT ![p].pc = "done"]
              /\ bookings' = Append(bookings, c.row)
  /\ UNCHANGED <<listings, today, last, closed>>

ClientSubmits == \E p \in Procs : Submit(p)
ClientValidates == \E p \in Procs : ValidateStep(p)
ClientCreates == \E p \in Procs : CreateStep(p)

NextConc == ClientSubmits \/ ClientValidates \/ ClientCreates

SpecConc == Init /\ [][NextConc]_vars

\* ------------------------------------------------------------ properties
\* the days of the half-open range [check_in, check_out)
NightsOf(check_in, check_out) == check_in .. (check_out - 1)

\* half-open interval overlap: [a, b) and [c, d) intersect iff a < d and c < b
Intersect(a, b, c, d) == a < d /\ c < b

IsActive(row) == row.status = "pending" \/ row.status = "confirmed"

Instances == {None} \cup DOMAIN bookings

RangesMeet(r1, r2) ==
  \E d \in Days : /\ r1.check_in_date <= d /\ d < r1.check_out_date
                  /\ r2.check_in_date <= d /\ d < r2.check_out_date

OverlappingPair(B) ==
  \E i \in DOMAIN B : \E j \in DOMAIN B :
     /\ i # j
     /\ B[i].listing_id = B[j].listing_id
     /\ IsActive(B[i]) /\ IsActive(B[j])
     /\ RangesMeet(B[i], B[j])

\* C1: after sequentially executed writes that validate accepted, no two
\* distinct active (pending or confirmed) bookings of one listing have
\* intersecting ranges [check_in, check_out).
C1_NoActiveOverlap == ~OverlappingPair(bookings)

\* C2: a submission that carries check-in, check-out and listing and passes
\* the date and capacity checks is rejected as not available exactly when
\* another stored booking of that listing (not the one being updated) is
\* pending or confirmed and satisfies existing.check_in < new.check_out and
\* existing.check_out > new.check_in; [1,5) conflicts with [4,8), not [5,8).
\* (validate runs only while a request can still be served.)
C2_Example ==
  LET L == [l \in {1} |-> [price_per_night |-> 100, max_guests |-> 2]]
      B == <<Submission(1, 5, 1, 1, "pending", 400)>>
  IN  /\ validate(Submission(4, 8, 1, 1, NoStatus, None), None, L, B, 0).err = E_CONFLICT
      /\ validate(Submission(5, 8, 1, 1, NoStatus, None), None, L, B, 0).err = NoErr

C2_ConflictIff ==
  /\ C2_Example
  /\ ~closed =>
     \A ci \in Days : \A co \in Days : \A l \in ListingRefs :
     \A g \in GuestVals \cup {None} : \A inst \in Instances :
       LET v == validate(Submission(ci, co, g, l, NoStatus, None), inst,
                         listings, bookings, today)
           other == \E i \in DOMAIN bookings :
                       /\ i # inst
                       /\ bookings[i].listing_id = l
                       /\ IsActive(bookings[i])
                       /\ bookings[i].check_in_date < co
                       /\ bookings[i].check_out_date > ci
       IN  v.err \notin {E_ORDER, E_PAST, E_CAPACITY, E_LISTING}
             => (v.err = E_CONFLICT <=> other)

C2_Witness ==
  /\ closed /\ last.op = "update" /\ last.err = E_CONFLICT
  /\ Len(bookings) = 2

\* C3: a booking that create persists has total_price = (check_out -
\* check_in) * the listing's price_per_night at that moment, whatever
\* total_price the client supplied; 3 nights at 100 give 300.
C3_Example ==
  LET L == [l \in {1} |-> [price_per_night |-> 100, max_guests |-> 2]]
  IN  create(to_internal_value(Submission(1, 4, 1, 1, "pending", 7)), L).row.total_price = 300

C3_Step ==
  /\ C3_Example
  /\ Len(bookings') = Len(bookings) + 1 =>
       LET row == bookings'[Len(bookings')]
       IN  row.total_price =
             Cardinality(NightsOf(row.check_in_date, row.check_out_date))
               * listings[row.listing_id].price_per_night

C3_TotalPrice == [][C3_Step]_vars

C3_Witness ==
  \E i \in DOMAIN bookings :
     /\ bookings[i].listing_id = 2
     /\ bookings[i].check_out_date - bookings[i].check_in_date = 2
     /\ bookings[i].total_price = 4

C5_DatesEnforced ==
  /\ \A i \in DOMAIN bookings :
        bookings[i].check_out_date > bookings[i].check_in_date
  /\ \A inst \in DOMAIN bookings : \A ci \in Days : \A co \in Days \cup {None} :
        LET v == validate(Submission(ci, co, None, None, NoStatus, None), inst,
                          listings, bookings, today)
        IN  /\ (co # None /\ co <= ci) => v.err # NoErr
            /\ ci < today => v.err # NoErr

\* C6: a write whose listing id does not exist fails with a validation
\* error; create never raises anything else.
C6_OnlyValidationErrors ==
  last.op = "create" => last.err \in ValidationErrors \cup {NoErr}

\* C7: validate reports the error of the earliest violated rule in the order
\* (a) check_out <= check_in, (b) check_in before today, (c) invalid listing
\* or guests over capacity, (d) conflicting active booking, and performs no
\* later lookup after a failure.
RuleA(d) ==
  d.check_in_date # None /\ d.check_out_date # None
    /\ d.check_out_date <= d.check_in_date
RuleB(d) == d.check_in_date # None /\ d.check_in_date < today
RuleC(d) ==
  d.listing_id # None /\
    (d.listing_id \notin DOMAIN listings
       \/ (d.guests # None /\ d.guests > listings[d.listing_id].max_guests))
RuleD(d, inst) ==
  d.check_in_date # None /\ d.check_out_date # None /\ d.listing_id # None
    /\ \E i \in DOMAIN bookings :
          /\ i # inst
          /\ bookings[i].listing_id = d.listing_id
          /\ IsActive(bookings[i])
          /\ Intersect(bookings[i].check_in_date, bookings[i].check_out_date,
                       d.check_in_date, d.check_out_date)

EarliestError(d, inst) ==
  IF RuleA(d) THEN E_ORDER
  ELSE IF RuleB(d) THEN E_PAST
  ELSE IF RuleC(d)
  THEN (IF d.listing_id \notin DOMAIN listings THEN E_LISTING ELSE E_CAPACITY)
  ELSE IF RuleD(d, inst) THEN E_CONFLICT
  ELSE NoErr

Violated(d, inst) ==
  (IF RuleA(d) THEN {"a"} ELSE {}) \cup (IF RuleB(d) THEN {"b"} ELSE {})
    \cup (IF RuleC(d) THEN {"c"} ELSE {})
    \cup (IF RuleD(d, inst) THEN {"d"} ELSE {})

C7_EarliestRuleFirst ==
  \A inst \in DOMAIN bookings : \A d \in PartialSubmissions :
     LET v == validate(to_internal_value(d), inst, listings, bookings, today)
     IN  /\ Cardinality(Violated(d, inst)) >= 2 => v.err = EarliestError(d, inst)
         /\ v.err = E_ORDER => v.calls = <<>>
         /\ v.err = E_PAST => v.calls = <<"now">>
         /\ v.err \in {E_CAPACITY, E_LISTING} =>
               \A n \in DOMAIN v.calls : v.calls[n] # "Booking.filter"

\* C8: a write that validate rejects leaves listings and bookings exactly as
\* they were.
C8_Step ==
  (last'.op \in {"create", "update"} /\ last'.err \in ValidationErrors
     /\ closed' /\ ~closed)
    => (bookings' = bookings /\ listings' = listings)

C8_RejectedWriteChangesNothing == [][C8_Step]_vars

C8_Witness ==
  /\ closed /\ last.op = "update" /\ last.err \in ValidationErrors
  /\ bookings # <<>>

\* C9: total_price is set by create and left unchanged by every later
\* operation: accepted updates and price changes keep each stored booking's
\* total_price, and client input never overwrites it.
C9_Step ==
  \A i \in DOMAIN bookings :
     /\ i \in DOMAIN bookings'
     /\ bookings'[i].total_price = bookings[i].total_price

C9_TotalPriceFrozen == [][C9_Step]_vars

C9_Witness ==
  /\ closed /\ last.op = "update" /\ last.err = NoErr
  /\ \E i \in DOMAIN bookings :
        bookings[i].total_price #
          (bookings[i].check_out_date - bookings[i].check_in_date)
             * listings[bookings[i].listing_id].price_per_night

\* C10: when two creations for one listing with intersecting ranges both
\* pass validate before either runs create, both are persisted and the store
\* holds two overlapping active bookings of that listing.
BothPastValidate == \A p \in Procs : inflight[p].pc \in {"done", "failed"}

RequestsCollide ==
  \E p \in Procs : \E q \in Procs :
     /\ p # q
     /\ inflight[p].data.listing_id = inflight[q].data.listing_id
     /\ IsActive(inflight[p].data) /\ IsActive(inflight[q].data)
     /\ RangesMeet(inflight[p].data, inflight[q].data)

C10_RaceOverlap ==
  (BothPastValidate /\ RequestsCollide) => OverlappingPair(bookings)

C10_Witness ==
  /\ \A p \in Procs : inflight[p].pc = "done"
  /\ OverlappingPair(bookings)
====
